---- MODULE Spec2Model ----
(***************************************************************************)
(* Address book of src/main.py: Field / Name / Phone values, Record with   *)
(* its ordered phone list, AddressBook (a UserDict keyed by contact name). *)
(*                                                                         *)
(* A string is a sequence of one-character strings.  Record objects live   *)
(* in `heap` and are named by their index (their identity); the book's     *)
(* dict `data` holds references (indices), in insertion order.  `last` is  *)
(* what the caller observed of the most recent call: its arguments, the    *)
(* value it returned or the exception it raised, and in `before` what the  *)
(* caller could read just before it (len(record.phones) for a Record       *)
(* method, the reference stored under the name for an AddressBook method). *)
(***************************************************************************)
EXTENDS Integers, Sequences, FiniteSets, TLC

VARIABLES heap, data, last

vars == <<heap, data, last>>

(***************************************************************************)
(* Bounds of the model.                                                    *)
(***************************************************************************)
MaxRecords == 2     \* Record objects constructed (Spec)
MaxPhones  == 2     \* Phone objects held by all records together (Spec)
MaxSeq     == 4     \* phones of the one record of RecordSpec
MaxDigits  == 13    \* longest digit run of a generated raw string (PhoneSpec)

(***************************************************************************)
(* Program constants.                                                      *)
(***************************************************************************)
PhoneLen  == 10     \* len(phone) != 10
PrefixLen == 2      \* phone[2:]

Prefix38 == <<"3", "8">>

AsciiDigits == {"0", "1", "2", "3", "4", "5", "6", "7", "8", "9"}

\* re's \d on a str pattern also matches the decimal digits of other scripts;
\* "u0663" stands for one such character (ARABIC-INDIC DIGIT THREE).
OtherDigits == {"u0663"}

IsDigit(c) == c \in AsciiDigits \cup OtherDigits

(***************************************************************************)
(* Field.__str__ : str(self.value).  A value is already a string.          *)
(***************************************************************************)
Field__str__(value) == value

\* Phone.__init__ dropping the "38" prefix only from a 12-digit string
Phone__init__Strip12(phone) ==
    LET d == SelectSeq(phone, IsDigit)
        n == IF Len(d) = PhoneLen + PrefixLen /\ SubSeq(d, 1, PrefixLen) = Prefix38
             THEN SubSeq(d, PrefixLen + 1, Len(d))
             ELSE d
    IN  IF Len(n) # PhoneLen
        THEN [ok |-> FALSE, value |-> n]
        ELSE [ok |-> TRUE, value |-> n]

\* Phone.__init__ testing len(phone) > 10
Phone__init__AtMost(phone) ==
    LET d == SelectSeq(phone, IsDigit)
        n == IF Len(d) >= PrefixLen /\ SubSeq(d, 1, PrefixLen) = Prefix38
             THEN SubSeq(d, PrefixLen + 1, Len(d))
             ELSE d
    IN  IF Len(n) > PhoneLen
        THEN [ok |-> FALSE, value |-> n]
        ELSE [ok |-> TRUE, value |-> n]

(***************************************************************************)
(* Phone.__init__ : the outcome of constructing Phone(phone).              *)
(*   ok     TRUE when the constructor returns, FALSE when it raises        *)
(*   value  self.value when ok, else the string put in the error message   *)
(***************************************************************************)
Phone__init__(phone) ==
    LET d == SelectSeq(phone, IsDigit)
        n == IF Len(d) >= PrefixLen /\ SubSeq(d, 1, PrefixLen) = Prefix38
             THEN SubSeq(d, PrefixLen + 1, Len(d))
             ELSE d
    IN  IF Len(n) # PhoneLen
        THEN [ok |-> FALSE, value |-> n]
        ELSE [ok |-> TRUE, value |-> n]

(***************************************************************************)
(* Inputs.                                                                 *)
(***************************************************************************)
Names == {"John", "Jane"}

JohnRaw   == <<"+", "3", "8", "1", "2", "3", "4", "5", "6", "-", "7", "8", "9", "0">>
Fives     == <<"5", "5", "5", "5", "5", "5", "5", "5", "5", "5">>
FivesRaw  == <<"(", "5", "5", "5", ")", "5", "5", "5", "5", "5", "5", "5">>
JohnPhone == <<"1", "2", "3", "4", "5", "6", "7", "8", "9", "0">>
NewPhone  == <<"1", "1", "1", "2", "2", "2", "3", "3", "3", "3">>
Ten38     == <<"3", "8", "1", "2", "3", "4", "5", "6", "7", "8">>
Empty     == <<>>

\* Spec: raw strings handed to add_phone and as edit_phone's new number
RawInputs == {JohnRaw, Fives, Ten38}

\* Spec: strings handed to remove_phone, find_phone and as edit_phone's old number
ValueInputs == {JohnPhone, Fives}

\* RecordSpec: the same, wider
RecordRawInputs == {JohnRaw, Fives, FivesRaw, NewPhone, Ten38, Empty}

RecordValueInputs == {JohnPhone, Fives, NewPhone, JohnRaw}

\* PhoneSpec: a prefix followed by a run of 0..MaxDigits digits, plain or with
\* a dash after its third digit
DigitCycle == <<"1", "2", "3", "4", "5", "6", "7", "8", "9", "0">>

DigitRun(from, k) == [i \in 1..k |-> DigitCycle[((from + i - 2) % 10) + 1]]

Dashed(s) == IF Len(s) > 3 THEN SubSeq(s, 1, 3) \o <<"-">> \o SubSeq(s, 4, Len(s)) ELSE s

Prefixes ==
    { <<>>, <<"+">>, <<"3">>, <<"3", "8">>, <<"+", "3", "8">>, <<"3", "-", "8">>,
      <<"3", "8", "3", "8">>, <<"8", "3">>, <<"u0663", "8">>,
      <<"(", "3", "8", ")", " ">>, <<"u0663">> }

Bodies ==
    UNION { {DigitRun(1, k), Dashed(DigitRun(1, k)), DigitRun(8, k)} : k \in 0..MaxDigits }

PhoneInputs == {p \o b : p \in Prefixes, b \in Bodies} \cup RecordRawInputs

NoCall == [op |-> "none", rec |-> 0, name |-> "", arg |-> <<>>, new |-> <<>>,
           before |-> 0, outcome |-> "ok", ret |-> 0, val |-> <<>>]

Call(op, rec, name, arg, new, before, outcome, ret, val) ==
    [op |-> op, rec |-> rec, name |-> name, arg |-> arg, new |-> new,
     before |-> before, outcome |-> outcome, ret |-> ret, val |-> val]

\* the book is created empty, no record exists
Init ==
    /\ heap = <<>>
    /\ data = <<>>
    /\ last = NoCall

Refs == 1..Len(heap)

RECURSIVE SumLen(_, _)
SumLen(h, i) == IF i = 0 THEN 0 ELSE Len(h[i].phones) + SumLen(h, i - 1)

TotalPhones == SumLen(heap, Len(heap))

(***************************************************************************)
(* Record.__init__                                                         *)
(***************************************************************************)
Record__init__(name) ==
    /\ heap' = Append(heap, [name |-> name, phones |-> <<>>])
    /\ data' = data
    /\ last' = Call("Record", 0, name, <<>>, <<>>, 0, "ok", Len(heap) + 1, <<>>)

(***************************************************************************)
(* Phone(phone) constructed by the caller and dropped.                     *)
(***************************************************************************)
Phone(phone) ==
    LET p == Phone__init__(phone)
    IN  /\ UNCHANGED <<heap, data>>
        /\ last' = Call("Phone", 0, "", phone, <<>>, 0,
                        IF p.ok THEN "ok" ELSE "InvalidPhoneNumber", 0, p.value)

\* add_phone appending the normalized string before it is validated
add_phone_AppendFirst(r, phone) ==
    LET p == Phone__init__(phone)
        n == Len(heap[r].phones)
    IN  /\ heap' = [heap EXCEPT ![r].phones = Append(@, p.value)]
        /\ last' = Call("add_phone", r, "", phone, <<>>, n,
                        IF p.ok THEN "ok" ELSE "InvalidPhoneNumber", 0, p.value)
        /\ data' = data

(***************************************************************************)
(* Record.add_phone : Phone(phone) raises before append is called.         *)
(***************************************************************************)
add_phone(r, phone) ==
    LET p == Phone__init__(phone)
        n == Len(heap[r].phones)
    IN  /\ IF p.ok
           THEN /\ heap' = [heap EXCEPT ![r].phones = Append(@, p.value)]
                /\ last' = Call("add_phone", r, "", phone, <<>>, n, "ok", 0, p.value)
           ELSE /\ heap' = heap
                /\ last' = Call("add_phone", r, "", phone, <<>>, n,
                                "InvalidPhoneNumber", 0, p.value)
        /\ data' = data

\* remove_phone as list.remove of the first match
remove_phone_First(r, phone) ==
    LET phones == heap[r].phones
        hit    == {i \in 1..Len(phones) : phones[i] = phone}
        first  == CHOOSE i \in hit : \A j \in hit : i <= j
    IN  /\ heap' = IF hit = {} THEN heap
                   ELSE [heap EXCEPT ![r].phones =
                            SubSeq(phones, 1, first - 1) \o SubSeq(phones, first + 1, Len(phones))]
        /\ data' = data
        /\ last' = Call("remove_phone", r, "", phone, <<>>, Len(phones), "ok", 0, <<>>)

(***************************************************************************)
(* Record.remove_phone                                                     *)
(***************************************************************************)
remove_phone(r, phone) ==
    /\ heap' = [heap EXCEPT ![r].phones = SelectSeq(@, LAMBDA p : p # phone)]
    /\ data' = data
    /\ last' = Call("remove_phone", r, "", phone, <<>>, Len(heap[r].phones),
                    "ok", 0, <<>>)

\* edit_phone constructing Phone(new_phone) before the loop
edit_phone_ValidateFirst(r, old_phone, new_phone) ==
    LET phones == heap[r].phones
        found  == \E i \in 1..Len(phones) : phones[i] = old_phone
        p      == Phone__init__(new_phone)
    IN  /\ UNCHANGED <<heap, data>>
        /\ last' = IF ~p.ok
                   THEN Call("edit_phone", r, "", old_phone, new_phone,
                             Len(phones), "InvalidPhoneNumber", 0, p.value)
                   ELSE IF found
                        THEN Call("edit_phone", r, "", old_phone, new_phone,
                                  Len(phones), "ok", 0, p.value)
                        ELSE Call("edit_phone", r, "", old_phone, new_phone,
                                  Len(phones), "PhoneNotFound", 0, old_phone)

(***************************************************************************)
(* Record.edit_phone : the loop stops at the first p with p.value ==       *)
(* old_phone, rebinds the loop variable p to Phone(new_phone) and returns; *)
(* self.phones is not assigned.                                            *)
(***************************************************************************)
edit_phone(r, old_phone, new_phone) ==
    LET phones == heap[r].phones
        found  == \E i \in 1..Len(phones) : phones[i] = old_phone
        p      == Phone__init__(new_phone)
    IN  /\ UNCHANGED <<heap, data>>
        /\ last' = IF found
                   THEN IF p.ok
                        THEN Call("edit_phone", r, "", old_phone, new_phone,
                                  Len(phones), "ok", 0, p.value)
                        ELSE Call("edit_phone", r, "", old_phone, new_phone,
                                  Len(phones), "InvalidPhoneNumber", 0, p.value)
                   ELSE Call("edit_phone", r, "", old_phone, new_phone,
                             Len(phones), "PhoneNotFound", 0, old_phone)

\* the last match instead of the first
LastMatch(phones, phone) ==
    IF \E i \in 1..Len(phones) : phones[i] = phone
    THEN CHOOSE i \in 1..Len(phones) :
            /\ phones[i] = phone
            /\ \A j \in (i + 1)..Len(phones) : phones[j] # phone
    ELSE 0

(***************************************************************************)
(* Record.find_phone : next(...) of the generator, default None.  The      *)
(* Phone returned is named by its position in self.phones, 0 for None.     *)
(***************************************************************************)
FirstMatch(phones, phone) ==
    IF \E i \in 1..Len(phones) : phones[i] = phone
    THEN CHOOSE i \in 1..Len(phones) :
            /\ phones[i] = phone
            /\ \A j \in 1..(i - 1) : phones[j] # phone
    ELSE 0

find_phone(r, phone) ==
    LET i == FirstMatch(heap[r].phones, phone)
    IN  /\ UNCHANGED <<heap, data>>
        /\ last' = Call("find_phone", r, "", phone, <<>>, Len(heap[r].phones), "ok", i,
                        IF i = 0 THEN <<>> ELSE Field__str__(heap[r].phones[i]))

(***************************************************************************)
(* Record.__str__                                                          *)
(***************************************************************************)
RECURSIVE Join(_, _)
Join(sep, strs) ==
    IF Len(strs) = 0 THEN <<>>
    ELSE IF Len(strs) = 1 THEN strs[1]
    ELSE strs[1] \o sep \o Join(sep, Tail(strs))

Record__str__(rec) ==
    <<"Contact name: ", rec.name, ", phones: ">> \o Join(<<";", " ">>, rec.phones)

(***************************************************************************)
(* AddressBook: self.data, a dict in insertion order; 0 stands for None.   *)
(***************************************************************************)
Keys(d) == {d[i].key : i \in 1..Len(d)}

\* self.data.get(name, None)
Get(d, name) ==
    IF name \in Keys(d)
    THEN (CHOOSE e \in {d[i] : i \in 1..Len(d)} : e.key = name).value
    ELSE 0

\* self.data[key] = value
SetItem(d, key, value) ==
    IF key \in Keys(d)
    THEN [i \in 1..Len(d) |-> IF d[i].key = key THEN [key |-> key, value |-> value]
                                                 ELSE d[i]]
    ELSE Append(d, [key |-> key, value |-> value])

\* self.data.pop(key, None)
Pop(d, key) == SelectSeq(d, LAMBDA e : e.key # key)

\* add_record as self.data.setdefault(name, record)
add_record_SetDefault(r) ==
    /\ data' = IF heap[r].name \in Keys(data) THEN data
               ELSE Append(data, [key |-> heap[r].name, value |-> r])
    /\ heap' = heap
    /\ last' = Call("add_record", r, heap[r].name, <<>>, <<>>,
                    Get(data, heap[r].name), "ok", 0, <<>>)

add_record(r) ==
    /\ data' = SetItem(data, heap[r].name, r)
    /\ heap' = heap
    /\ last' = Call("add_record", r, heap[r].name, <<>>, <<>>,
                    Get(data, heap[r].name), "ok", 0, <<>>)

\* find returning a copy of the stored record
find_Copy(name) ==
    /\ data' = data
    /\ heap' = IF name \in Keys(data) THEN Append(heap, heap[Get(data, name)]) ELSE heap
    /\ last' = Call("find", 0, name, <<>>, <<>>, Get(data, name), "ok",
                    IF name \in Keys(data) THEN Len(heap) + 1 ELSE 0, <<>>)

find(name) ==
    /\ UNCHANGED <<heap, data>>
    /\ last' = Call("find", 0, name, <<>>, <<>>, Get(data, name), "ok",
                    Get(data, name), <<>>)

\* delete as del self.data[name]
delete_Del(name) ==
    /\ data' = Pop(data, name)
    /\ heap' = heap
    /\ last' = Call("delete", 0, name, <<>>, <<>>, Get(data, name),
                    IF name \in Keys(data) THEN "ok" ELSE "KeyError", 0, <<>>)

delete(name) ==
    /\ data' = Pop(data, name)
    /\ heap' = heap
    /\ last' = Call("delete", 0, name, <<>>, <<>>, Get(data, name), "ok", 0, <<>>)

\* AddressBook.__str__ : the records' renderings, one per line
AddressBook__str__(d, h) == [i \in 1..Len(d) |-> Record__str__(h[d[i].value])]

(***************************************************************************)
(* Spec: the caller's calls on the book and on the records it constructed. *)
(***************************************************************************)
Next ==
    \/ \E name \in Names :
          Len(heap) < MaxRecords /\ Record__init__(name)
    \/ \E r \in Refs, phone \in RawInputs :
          (Phone__init__(phone).ok => TotalPhones < MaxPhones) /\ add_phone(r, phone)
    \/ \E r \in Refs, phone \in ValueInputs : remove_phone(r, phone)
    \/ \E r \in Refs, old \in ValueInputs, new \in RawInputs : edit_phone(r, old, new)
    \/ \E r \in Refs, phone \in ValueInputs : find_phone(r, phone)
    \/ \E r \in Refs : add_record(r)
    \/ \E name \in Names : find(name)
    \/ \E name \in Names : delete(name)

Spec == Init /\ [][Next]_vars

(***************************************************************************)
(* RecordSpec: one record, its methods on wider inputs.                    *)
(***************************************************************************)
RecordNext ==
    \/ \E name \in Names :
          heap = <<>> /\ Record__init__(name)
    \/ \E r \in Refs, phone \in RecordRawInputs :
          (Phone__init__(phone).ok => Len(heap[r].phones) < MaxSeq) /\ add_phone(r, phone)
    \/ \E r \in Refs, phone \in RecordValueInputs : remove_phone(r, phone)
    \/ \E r \in Refs, old \in RecordValueInputs, new \in RecordRawInputs :
          edit_phone(r, old, new)
    \/ \E r \in Refs, phone \in RecordValueInputs : find_phone(r, phone)

RecordSpec == Init /\ [][RecordNext]_vars

(***************************************************************************)
(* PhoneSpec: Phone(phone) on every generated raw string.                  *)
(***************************************************************************)
PhoneNext == \E phone \in PhoneInputs : Phone(phone)

PhoneSpec == Init /\ [][PhoneNext]_vars

(***************************************************************************)
(* What the properties below are stated with.                              *)
(***************************************************************************)
RECURSIVE DigitsOf(_)
DigitsOf(raw) ==
    IF raw = <<>> THEN <<>>
    ELSE IF IsDigit(Head(raw)) THEN <<Head(raw)>> \o DigitsOf(Tail(raw))
    ELSE DigitsOf(Tail(raw))

Starts38(d) == Len(d) >= 2 /\ d[1] = "3" /\ d[2] = "8"

Normalized(raw) ==
    IF Starts38(DigitsOf(raw)) THEN Tail(Tail(DigitsOf(raw))) ELSE DigitsOf(raw)

InSeq(s, v) == \E i \in 1..Len(s) : s[i] = v

RECURSIVE Without(_, _)
Without(s, v) ==
    IF s = <<>> THEN <<>>
    ELSE IF Head(s) = v THEN Without(Tail(s), v)
    ELSE <<Head(s)>> \o Without(Tail(s), v)

RECURSIVE ReplaceFirst(_, _, _)
ReplaceFirst(s, old, new) ==
    IF s = <<>> THEN <<>>
    ELSE IF Head(s) = old THEN <<new>> \o Tail(s)
    ELSE <<Head(s)>> \o ReplaceFirst(Tail(s), old, new)

Occurrences(d, key) == Cardinality({i \in 1..Len(d) : d[i].key = key})

RecordOps == {"add_phone", "remove_phone", "edit_phone"}

C2_EditReplacesFirstMatch ==
    [][ ( /\ last'.op = "edit_phone"
          /\ InSeq(heap[last'.rec].phones, last'.arg)
          /\ Len(Normalized(last'.new)) = 10 )
        => /\ last'.outcome = "ok"
           /\ heap'[last'.rec].phones =
                 ReplaceFirst(heap[last'.rec].phones, last'.arg, Normalized(last'.new))
           /\ InSeq(heap'[last'.rec].phones, Normalized(last'.new)) ]_vars

(***************************************************************************)
(* C3: a failing add_phone or edit_phone leaves every record's phones and  *)
(* the book exactly as they were before the call.                          *)
(***************************************************************************)
C3_NoPartialMutation ==
    [][ (last'.op \in {"add_phone", "edit_phone"} /\ last'.outcome # "ok")
        => (heap' = heap /\ data' = data) ]_vars

C3_Witness ==
    /\ last.op = "add_phone"
    /\ last.outcome = "InvalidPhoneNumber"
    /\ Len(Normalized(last.arg)) # 10
    /\ heap[last.rec].phones # <<>>
    /\ Get(data, heap[last.rec].name) = last.rec

(***************************************************************************)
(* C4: edit_phone raises phone-not-found exactly when no stored phone      *)
(* equals old, whatever new is: an invalid new is not reported then.       *)
(***************************************************************************)
C4_NotFoundBeforeValidation ==
    [][ last'.op = "edit_phone"
        => ( (last'.outcome = "PhoneNotFound")
                <=> ~InSeq(heap[last'.rec].phones, last'.arg) ) ]_vars

C4_Witness ==
    /\ last.op = "edit_phone"
    /\ last.outcome = "PhoneNotFound"
    /\ Len(Normalized(last.new)) # 10
    /\ heap[last.rec].phones # <<>>

(***************************************************************************)
(* C5: remove_phone(v) never fails and leaves the previous phones without  *)
(* every element equal to v, the others in their previous order; with no   *)
(* element equal to v nothing changes.                                     *)
(***************************************************************************)
C5_RemoveAllOccurrences ==
    [][ last'.op = "remove_phone"
        => /\ last'.outcome = "ok"
           /\ heap'[last'.rec].phones = Without(heap[last'.rec].phones, last'.arg)
           /\ ~InSeq(heap'[last'.rec].phones, last'.arg)
           /\ ~InSeq(heap[last'.rec].phones, last'.arg) => heap' = heap
           /\ \A r \in Refs \ {last'.rec} : heap'[r] = heap[r]
           /\ data' = data ]_vars

C5_Witness ==
    /\ last.op = "remove_phone"
    /\ last.before = 4
    /\ Len(heap[last.rec].phones) = 2
    /\ heap[last.rec].phones[1] # heap[last.rec].phones[2]

(***************************************************************************)
(* C6: add_record(record) always succeeds and stores that record under its *)
(* name; a record already stored under the name is replaced, not merged;   *)
(* the key occurs once and the other keys keep their records.              *)
(***************************************************************************)
C6_AddRecordOverwrites ==
    [][ last'.op = "add_record"
        => /\ last'.outcome = "ok"
           /\ last'.name = heap[last'.rec].name
           /\ Get(data', last'.name) = last'.rec
           /\ heap' = heap
           /\ Occurrences(data', last'.name) = 1
           /\ Keys(data') = Keys(data) \cup {last'.name}
           /\ \A n \in Keys(data') :
                 /\ Occurrences(data', n) = 1
                 /\ n # last'.name => Get(data', n) = Get(data, n) ]_vars

C6_Witness ==
    /\ last.op = "add_record"
    /\ last.before \notin {0, last.rec}
    /\ heap[last.before].phones # <<>>
    /\ heap[last.rec].phones # heap[last.before].phones
    /\ Get(data, last.name) = last.rec

(***************************************************************************)
(* C7: delete(name) never fails; an absent name leaves the book unchanged; *)
(* a present name is removed and the other entries stay; find(name) then   *)
(* returns not-found until add_record stores a record of that name.        *)
(***************************************************************************)
C7_DeleteRemovesKey ==
    [][ /\ last'.op = "delete"
           => /\ last'.outcome = "ok"
              /\ last'.name \notin Keys(data')
              /\ last'.name \notin Keys(data) => data' = data
              /\ data' = SelectSeq(data, LAMBDA e : e.key # last'.name)
              /\ \A n \in Keys(data) \ {last'.name} : Get(data', n) = Get(data, n)
              /\ heap' = heap
        /\ (last'.op = "find" /\ last'.name \notin Keys(data)) => last'.ret = 0
        /\ \A n \in Keys(data') \ Keys(data) :
              last'.op = "add_record" /\ last'.name = n ]_vars

C7_Witness ==
    /\ last.op = "delete"
    /\ last.before # 0
    /\ last.name \notin Keys(data)
    /\ Len(data) = 1

(***************************************************************************)
(* C8: find(name) changes nothing, returns not-found exactly when name is  *)
(* no key, and otherwise returns the stored record itself: a record method *)
(* called through the reference find returned, or through the reference    *)
(* given to add_record, is seen by the book and by its rendering.          *)
(***************************************************************************)
Handle(call) ==
    IF call.op = "find" THEN call.ret
    ELSE IF call.op = "add_record" THEN call.rec
    ELSE 0

C8_FindReturnsLiveRecord ==
    [][ /\ last'.op = "find"
           => /\ heap' = heap /\ data' = data
              /\ last'.outcome = "ok"
              /\ (last'.ret = 0) <=> (last'.name \notin Keys(data))
              /\ last'.name \in Keys(data)
                    => \E i \in 1..Len(data) :
                          /\ data[i].key = last'.name
                          /\ data[i].value = last'.ret
        /\ (Handle(last) # 0 /\ last'.op \in RecordOps /\ last'.rec = Handle(last))
           => \E i \in 1..Len(data') :
                 /\ data'[i].key = last.name
                 /\ data'[i].value = Handle(last)
                 /\ AddressBook__str__(data', heap')[i] = Record__str__(heap'[Handle(last)])
                 /\ Get(data', last.name) = Handle(last) ]_vars

C8_Witness ==
    /\ last.op = "add_phone"
    /\ last.outcome = "ok"
    /\ Get(data, heap[last.rec].name) = last.rec
    /\ \E i \in 1..Len(data) :
          AddressBook__str__(data, heap)[i] =
             <<"Contact name: ", heap[last.rec].name, ", phones: ">> \o last.val

(***************************************************************************)
(* C9: find_phone(v) changes nothing and never raises; it returns the      *)
(* first phone equal to v, and not-found exactly when no phone equals v;   *)
(* right after a successful add_phone(raw), find_phone of the normalized   *)
(* raw finds a match.                                                      *)
(***************************************************************************)
C9_FindPhoneFirstMatch ==
    [][ /\ last'.op = "find_phone"
           => /\ heap' = heap /\ data' = data
              /\ last'.outcome = "ok"
              /\ (last'.ret = 0) <=> ~InSeq(heap[last'.rec].phones, last'.arg)
              /\ last'.ret # 0
                    => /\ last'.ret \in 1..Len(heap[last'.rec].phones)
                       /\ heap[last'.rec].phones[last'.ret] = last'.arg
                       /\ last'.val = last'.arg
                       /\ \A j \in 1..(last'.ret - 1) :
                             heap[last'.rec].phones[j] # last'.arg
        /\ ( /\ last.op = "add_phone" /\ last.outcome = "ok"
             /\ last'.op = "find_phone" /\ last'.rec = last.rec
             /\ last'.arg = Normalized(last.arg) )
           => (last'.ret # 0 /\ last'.val = Normalized(last.arg)) ]_vars

C9_Witness ==
    /\ last.op = "find_phone"
    /\ last.ret = 2
    /\ \E k \in 3..Len(heap[last.rec].phones) : heap[last.rec].phones[k] = last.arg

(***************************************************************************)
(* C10: every phone of every record, in the book or not, is 10 digit       *)
(* characters, whatever calls succeeded or failed; a successful add_phone  *)
(* appends at the end, also a value the record already holds.              *)
(***************************************************************************)
TenDigits(p) == Len(p) = 10 /\ \A j \in 1..Len(p) : IsDigit(p[j])

AllPhonesTenDigits ==
    \A r \in Refs : \A i \in 1..Len(heap[r].phones) : TenDigits(heap[r].phones[i])

C10_TenDigitPhones ==
    /\ []AllPhonesTenDigits
    /\ [][ (last'.op = "add_phone" /\ last'.outcome = "ok")
           => heap'[last'.rec].phones =
                 Append(heap[last'.rec].phones, Normalized(last'.arg)) ]_vars

C10_Witness ==
    \E r \in Refs :
        /\ Get(data, heap[r].name) # r
        /\ Len(heap[r].phones) = 2
        /\ heap[r].phones[1] = heap[r].phones[2]
        /\ last.op = "add_phone"
        /\ last.rec = r

====
